---------------------------- MODULE Spec2Model ----------------------------
(***************************************************************************)
(* A model of github.com/veqryn/dedup (src/dedup.go): the external         *)
(* sort-merge deduplication of newline-delimited records.                  *)
(*                                                                         *)
(* Bytes are natural numbers, a record is a sequence of bytes, a file is a *)
(* sequence of bytes.  Files are written as the code writes them (record,  *)
(* then the delimiter) and read back as bufio.Scanner reads them (the      *)
(* default split function, bufio.ScanLines).                               *)
(***************************************************************************)
EXTENDS Naturals, Integers, Sequences, FiniteSets

(***************************************************************************)
(* Bounds of the model.                                                    *)
(***************************************************************************)
\* the most lines an input file holds
MaxLines == 3
\* the largest value of tmpFileBytes
MaxThreshold == 6
\* lineCount and progress are uint64 counters; they wrap around here
MaxCount == 16
\* the most lines an input file holds in the specifications that add the
\* progress tracker or fairness to the pipeline
MaxShortLines == 2
\* the largest value of tmpFileBytes when the progress tracker runs
MaxShortThreshold == 3
\* the most ticks of the progress ticker in one run
MaxTicks == 1

(***************************************************************************)
(* Program constants.                                                      *)
(***************************************************************************)
\* var delimiter byte = "\n"[0]
delimiter == 10
\* the carriage return bufio.ScanLines drops from the end of a token
CR == 13
\* progress is added to in batches of this many lines
ProgressBatch == 1000
\* the chunk identity of the caller's destination file; temporary files
\* are numbered from 1 in the order os.CreateTemp made them
outFile == 0

(***************************************************************************)
(* Byte strings.                                                           *)
(***************************************************************************)
Min(a, b) == IF a < b THEN a ELSE b

\* string comparison of Go: lexicographic over bytes (a < b)
Less(a, b) ==
    \E i \in 1..(Min(Len(a), Len(b)) + 1) :
        /\ \A j \in 1..(i - 1) : a[j] = b[j]
        /\ IF i <= Len(a) /\ i <= Len(b) THEN a[i] < b[i]
           ELSE i > Len(a) /\ i <= Len(b)

LessEq(a, b) == a = b \/ Less(a, b)

\* a sequence of records is non-decreasing
IsSorted(s) == \A i \in 1..(Len(s) - 1) : LessEq(s[i], s[i + 1])

\* a sequence of records is strictly increasing
IsStrictlySorted(s) == \A i \in 1..(Len(s) - 1) : Less(s[i], s[i + 1])

Range(s) == {s[i] : i \in 1..Len(s)}

\* bufio.dropCR: one trailing carriage return is removed
dropCR(data) ==
    IF Len(data) > 0 /\ data[Len(data)] = CR
    THEN SubSeq(data, 1, Len(data) - 1)
    ELSE data

\* index of the first delimiter in data, 0 when there is none
IndexByte(data) ==
    IF \E i \in 1..Len(data) : data[i] = delimiter
    THEN CHOOSE i \in 1..Len(data) :
             /\ data[i] = delimiter
             /\ \A j \in 1..(i - 1) : data[j] # delimiter
    ELSE 0

\* the tokens a bufio.Scanner with the default split function (ScanLines)
\* yields over data: newline-terminated lines, then a final unterminated
\* line, each with one trailing carriage return dropped
RECURSIVE ScanLines(_)
ScanLines(data) ==
    IF data = <<>> THEN <<>>
    ELSE LET i == IndexByte(data)
         IN  IF i > 0
             THEN <<dropCR(SubSeq(data, 1, i - 1))>>
                      \o ScanLines(SubSeq(data, i + 1, Len(data)))
             ELSE <<dropCR(data)>>

\* the records of a newline-delimited file: the byte strings between
\* delimiters (the output format of the README)
RECURSIVE Records(_)
Records(data) ==
    IF data = <<>> THEN <<>>
    ELSE LET i == IndexByte(data)
         IN  IF i > 0
             THEN <<SubSeq(data, 1, i - 1)>>
                      \o Records(SubSeq(data, i + 1, Len(data)))
             ELSE <<data>>

\* sortKeys without the sort: the keys in some order of the map, here the
\* largest first
RECURSIVE keysUnsorted(_)
keysUnsorted(set) ==
    IF set = {} THEN <<>>
    ELSE LET m == CHOOSE x \in set : \A y \in set : LessEq(y, x)
         IN  <<m>> \o keysUnsorted(set \ {m})

\* sortKeys: the keys of the set in a sorted slice
RECURSIVE sortKeys(_)
sortKeys(set) ==
    IF set = {} THEN <<>>
    ELSE LET m == CHOOSE x \in set : \A y \in set : LessEq(x, y)
         IN  <<m>> \o sortKeys(set \ {m})

\* the bytes writeSlice writes for the slice: each line, then the delimiter
RECURSIVE SliceBytes(_)
SliceBytes(slice) ==
    IF slice = <<>> THEN <<>>
    ELSE slice[1] \o <<delimiter>> \o SliceBytes(Tail(slice))

(***************************************************************************)
(* Skip patterns.  A compiled pattern is modelled by the literal it was    *)
(* compiled from: lit matches every line holding lit as a substring, and   *)
(* ^lit$ (anchored) matches the line lit alone.                            *)
(***************************************************************************)
MatchString(pattern, line) ==
    IF pattern.anchored
    THEN line = pattern.lit
    ELSE \E i \in 0..(Len(line) - Len(pattern.lit)) :
             SubSeq(line, i + 1, i + Len(pattern.lit)) = pattern.lit

\* the loop over skipPatterns: the line is skipped if any pattern matches
Skipped(patterns, line) ==
    \E k \in 1..Len(patterns) : MatchString(patterns[k], line)

\* uint64 addition: it wraps around
Add(n, k) == (n + k) % MaxCount

(***************************************************************************)
(* The inputs a run is started with.                                       *)
(***************************************************************************)
\* lines of an input file, before the scanner reads them:
\* the empty line, a tab, a line ending in two carriage returns, "a"
RawLines == {<<>>, <<9>>, <<CR, CR>>, <<97>>}

SeqsUpTo(S, n) == UNION {[1..k -> S] : k \in 0..n}

\* the lines joined by the delimiter; the last line is terminated only
\* if terminated is TRUE
RECURSIVE Join(_, _)
Join(ls, terminated) ==
    IF ls = <<>> THEN <<>>
    ELSE IF Len(ls) = 1
         THEN ls[1] \o (IF terminated THEN <<delimiter>> ELSE <<>>)
         ELSE ls[1] \o <<delimiter>> \o Join(Tail(ls), terminated)

InputFiles ==
    {Join(ls, t) : ls \in SeqsUpTo(RawLines, MaxLines), t \in BOOLEAN}

Sub(lit) == [anchored |-> FALSE, lit |-> lit]
Exact(lit) == [anchored |-> TRUE, lit |-> lit]

\* no pattern; "a"; "^$"; "\t" and "^$"
PatternLists ==
    {<<>>, <<Sub(<<97>>)>>, <<Exact(<<>>)>>, <<Sub(<<9>>), Exact(<<>>)>>}

(***************************************************************************)
(* State.                                                                  *)
(***************************************************************************)
VARIABLES
    inFile,        \* the bytes the primary input delivers
    inFileErr,     \* TRUE: the input ends with a read error, not with EOF
    skipPatterns,  \* the compiled skip patterns
    tmpFileBytes,  \* the spill threshold
    pc,            \* where Dedup is
    scanned,       \* the number of tokens the input scanner has yielded
    hasNext,       \* the result of the last scanner.Scan()
    set,           \* the working set of splitSortDeduplicate
    chunks,        \* the chunk list (file identities)
    bytesUsed,     \* the byte budget counter
    previousLen,
    currentLen,
    lineCount,     \* the progress batch of the stage that runs
    progress,      \* the shared progress counter
    tmpFiles,      \* the contents of the temporary files, by identity
    out,           \* the bytes written to the destination
    removed,       \* the files closed and removed, in order
    scanners,      \* the cursors of the merge
    previousLine,
    hasPrevious,
    err,           \* the error splitSortDeduplicate / Dedup returns
    rerun,         \* TRUE: inFile is the destination of an earlier run
    inFileAgain,   \* "nil", or "stream": a second reader over the input
    inFileAgainErr, \* TRUE: reading inFileAgain fails
    tracker,       \* where the progress tracker goroutine is
    goal,          \* the goal of the progress tracker
    printed        \* the messages the progress tracker has printed

vars == <<inFile, inFileErr, skipPatterns, tmpFileBytes, pc, scanned, hasNext,
          set, chunks, bytesUsed, previousLen, currentLen, lineCount,
          progress, tmpFiles, out, removed, scanners, previousLine,
          hasPrevious, err, rerun, inFileAgain, inFileAgainErr, tracker,
          goal, printed>>

inputVars == <<inFile, inFileErr, skipPatterns, tmpFileBytes, rerun,
               inFileAgain, inFileAgainErr>>
trackerVars == <<tracker, goal, printed>>
splitVars == <<scanned, hasNext, set, chunks, bytesUsed, previousLen,
               currentLen>>
mergeVars == <<scanners, previousLine, hasPrevious>>

\* the tokens of the primary input
InTokens == ScanLines(inFile)

\* scanner.Text() / scanner.Bytes(): the current token; empty once Scan
\* has returned false
Text(n) == IF n >= 1 /\ n <= Len(InTokens) THEN InTokens[n] ELSE <<>>

\* scanner.Err(): nil at EOF, the read error otherwise
ScannerErr == IF inFileErr THEN "read error" ELSE "nil"

\* the content of a chunk file
Content(f) == IF f = outFile THEN out ELSE tmpFiles[f]

Init ==
    /\ inFile \in InputFiles
    /\ inFileErr \in BOOLEAN
    /\ skipPatterns \in PatternLists
    /\ tmpFileBytes \in 1..MaxThreshold
    /\ pc = "split_start"
    /\ scanned = 0
    /\ hasNext = FALSE
    /\ set = {}
    /\ chunks = <<>>
    /\ bytesUsed = 0
    /\ previousLen = 0
    /\ currentLen = 0
    /\ lineCount = 0
    /\ progress = 0
    /\ tmpFiles = <<>>
    /\ out = <<>>
    /\ removed = <<>>
    /\ scanners = <<>>
    /\ previousLine = <<>>
    /\ hasPrevious = FALSE
    /\ err = "nil"
    /\ rerun = FALSE
    /\ inFileAgain = "nil"
    /\ inFileAgainErr = FALSE
    /\ tracker = "none"
    /\ goal = 0
    /\ printed = <<>>


(***************************************************************************)
(* splitSortDeduplicate.                                                   *)
(***************************************************************************)
\* line := scanner.Text()
Line == Text(scanned)

\* hasNext = scanner.Scan(): whether the scanner has one more token
More == scanned < Len(InTokens)

\* the scanner's position after that Scan
Advanced == IF More THEN scanned + 1 ELSE Len(InTokens) + 1

\* scanner.Bytes() after the peek: the upcoming line
Upcoming == Text(Advanced)

\* set[line] = struct{}{}
Admit(s, line) == s \cup {line}

\* SpillNeeded with the threshold taken twice: the spill comes late
SpillNeededLate(used, upcomingLen, threshold) ==
    used + upcomingLen + 1 > 2 * threshold + 2

\* bytesUsed+uint64(len(scanner.Bytes()))+1 > tmpFileBytes
SpillNeeded(used, upcomingLen, threshold) == used + upcomingLen + 1 > threshold

\* Charge without the byte of the delimiter
ChargeWithoutDelimiter(used, line) == used + Len(line)

\* bytesUsed += uint64(len(line)) + 1
Charge(used, line) == used + Len(line) + 1

\* the identity os.CreateTemp gives the next temporary file
NewTemp == Len(tmpFiles) + 1

\* the progress a writeSlice that failed after k lines has added
BatchesOf(k) == (k \div ProgressBatch) * ProgressBatch

\* SplitStart without the early return: the loop is entered even when the
\* first Scan found no token
SplitStartWithoutReturn ==
    /\ pc = "split_start"
    /\ scanned' = 1
    /\ hasNext' = (Len(InTokens) > 0)
    /\ pc' = "split_loop"
    /\ UNCHANGED <<inputVars, trackerVars, set, chunks, bytesUsed, previousLen, currentLen,
                   lineCount, progress, tmpFiles, out, removed, mergeVars, err>>

\* the first Scan: an input without a token returns nil, scanner.Err()
SplitStart ==
    /\ pc = "split_start"
    /\ IF Len(InTokens) > 0
       THEN /\ scanned' = 1
            /\ hasNext' = TRUE
            /\ pc' = "split_loop"
            /\ err' = err
       ELSE /\ scanned' = scanned
            /\ hasNext' = FALSE
            /\ pc' = "split_returned"
            /\ err' = ScannerErr
    /\ UNCHANGED <<inputVars, trackerVars, set, chunks, bytesUsed, previousLen, currentLen,
                   lineCount, progress, tmpFiles, out, removed, mergeVars>>

\* LoopSkip testing hasNext before it continues: after a skipped last
\* line the loop is left, with the set as it is
LoopSkipLeaving ==
    /\ pc = "split_loop"
    /\ Skipped(skipPatterns, Line)
    /\ scanned' = Advanced
    /\ hasNext' = More
    /\ lineCount' = Add(Add(lineCount, 1), 1)
    /\ pc' = IF More THEN pc ELSE "split_final"
    /\ UNCHANGED <<inputVars, trackerVars, set, chunks, bytesUsed, previousLen,
                   currentLen, progress, tmpFiles, out, removed, mergeVars,
                   err>>

\* one iteration of the loop: the line is matched by a skip pattern
LoopSkip ==
    /\ pc = "split_loop"
    /\ Skipped(skipPatterns, Line)
    /\ scanned' = Advanced
    /\ hasNext' = More
    /\ lineCount' = Add(Add(lineCount, 1), 1)
    /\ UNCHANGED <<inputVars, trackerVars, pc, set, chunks, bytesUsed, previousLen,
                   currentLen, progress, tmpFiles, out, removed, mergeVars,
                   err>>

\* one iteration of the loop: the line is admitted and the peek found
\* no further token; the loop is left
LoopBreak ==
    /\ pc = "split_loop"
    /\ ~Skipped(skipPatterns, Line)
    /\ ~More
    /\ scanned' = Advanced
    /\ hasNext' = FALSE
    /\ set' = Admit(set, Line)
    /\ currentLen' = Cardinality(set')
    /\ lineCount' = IF currentLen' = previousLen
                    THEN Add(Add(lineCount, 1), 1)
                    ELSE Add(lineCount, 1)
    /\ progress' = Add(progress, lineCount')
    /\ pc' = "split_final"
    /\ UNCHANGED <<inputVars, trackerVars, chunks, bytesUsed, previousLen, tmpFiles, out,
                   removed, mergeVars, err>>

\* the progress batch after lineCount++ and the flush at ProgressBatch lines
Batched(n) == IF Add(n, 1) >= ProgressBatch THEN 0 ELSE Add(n, 1)
Flushed(p, n) == IF Add(n, 1) >= ProgressBatch THEN Add(p, Add(n, 1)) ELSE p

\* one iteration of the loop: the line is admitted, more tokens follow and
\* nothing is spilled (a line already in the set, or the budget holds)
LoopKeep ==
    /\ pc = "split_loop"
    /\ ~Skipped(skipPatterns, Line)
    /\ More
    /\ scanned' = Advanced
    /\ hasNext' = TRUE
    /\ set' = Admit(set, Line)
    /\ currentLen' = Cardinality(set')
    /\ progress' = Flushed(progress, lineCount)
    /\ IF currentLen' > previousLen
       THEN /\ ~SpillNeeded(Charge(bytesUsed, Line), Len(Upcoming), tmpFileBytes)
            /\ bytesUsed' = Charge(bytesUsed, Line)
            /\ lineCount' = Batched(lineCount)
       ELSE /\ bytesUsed' = bytesUsed
            /\ lineCount' = Add(Batched(lineCount), 1)
    /\ previousLen' = currentLen'
    /\ UNCHANGED <<inputVars, trackerVars, pc, chunks, tmpFiles, out, removed, mergeVars,
                   err>>

\* one iteration of the loop: the line is new to the set and the budget
\* is exceeded with the upcoming line: the set is written to a new
\* temporary file (os.CreateTemp or writeSlice may fail)
LoopSpill ==
    /\ pc = "split_loop"
    /\ ~Skipped(skipPatterns, Line)
    /\ More
    /\ Cardinality(Admit(set, Line)) > previousLen
    /\ SpillNeeded(Charge(bytesUsed, Line), Len(Upcoming), tmpFileBytes)
    /\ scanned' = Advanced
    /\ hasNext' = TRUE
    /\ progress' = Flushed(progress, lineCount)
    /\ lineCount' = Batched(lineCount)
    /\ LET slice == sortKeys(Admit(set, Line))
       IN  \/ \* os.CreateTemp fails: return chunks, err
              /\ set' = Admit(set, Line)
              /\ currentLen' = Cardinality(set')
              /\ bytesUsed' = Charge(bytesUsed, Line)
              /\ err' = "error"
              /\ pc' = "split_returned"
              /\ UNCHANGED <<chunks, tmpFiles, previousLen>>
           \/ \* writeSlice fails after k lines: return chunks, err
              \E k \in 0..Len(slice) :
                  /\ tmpFiles' = Append(tmpFiles, SliceBytes(SubSeq(slice, 1, k)))
                  /\ chunks' = Append(chunks, NewTemp)
                  /\ set' = Admit(set, Line)
                  /\ currentLen' = Cardinality(set')
                  /\ bytesUsed' = Charge(bytesUsed, Line)
                  /\ err' = "error"
                  /\ pc' = "split_returned"
                  /\ UNCHANGED previousLen
           \/ \* the chunk is written; set and counters are reset
              /\ tmpFiles' = Append(tmpFiles, SliceBytes(slice))
              /\ chunks' = Append(chunks, NewTemp)
              /\ set' = {}
              /\ bytesUsed' = 0
              /\ currentLen' = 0
              /\ previousLen' = 0
              /\ UNCHANGED <<pc, err>>
    /\ UNCHANGED <<inputVars, trackerVars, out, removed, mergeVars>>

\* FinalReadError testing scanner.Err() after the last write: the set is
\* written to the destination before the read error is returned
FinalReadErrorAfterWrite ==
    /\ pc = "split_final"
    /\ ScannerErr # "nil"
    /\ out' = out \o SliceBytes(sortKeys(set))
    /\ err' = ScannerErr
    /\ pc' = "split_returned"
    /\ UNCHANGED <<inputVars, trackerVars, splitVars, lineCount, progress, tmpFiles,
                   removed, mergeVars>>

\* after the loop: scanner.Err() is returned if the input failed
FinalReadError ==
    /\ pc = "split_final"
    /\ ScannerErr # "nil"
    /\ err' = ScannerErr
    /\ pc' = "split_returned"
    /\ UNCHANGED <<inputVars, trackerVars, splitVars, lineCount, progress, tmpFiles, out,
                   removed, mergeVars>>

\* after the loop, chunks were spilled: the rest of the set goes to one
\* more temporary file
FinalTemp ==
    /\ pc = "split_final"
    /\ ScannerErr = "nil"
    /\ Len(chunks) > 0
    /\ pc' = "split_returned"
    /\ LET slice == sortKeys(set)
       IN  \/ /\ err' = "error"
              /\ UNCHANGED <<chunks, tmpFiles>>
           \/ \E k \in 0..Len(slice) :
                  /\ tmpFiles' = Append(tmpFiles, SliceBytes(SubSeq(slice, 1, k)))
                  /\ chunks' = Append(chunks, NewTemp)
                  /\ err' = "error"
           \/ /\ tmpFiles' = Append(tmpFiles, SliceBytes(slice))
              /\ chunks' = Append(chunks, NewTemp)
              /\ err' = "nil"
    /\ UNCHANGED <<inputVars, trackerVars, scanned, hasNext, set, bytesUsed, previousLen,
                   currentLen, lineCount, progress, out, removed, mergeVars>>

\* FinalDirect without the test len(chunks) == 0: the last set goes to the
\* destination after spills too
FinalDirectAlways ==
    /\ pc = "split_final"
    /\ ScannerErr = "nil"
    /\ pc' = "split_returned"
    /\ chunks' = Append(chunks, outFile)
    /\ LET slice == sortKeys(set)
       IN  \/ \E k \in 0..Len(slice) :
                  /\ out' = out \o SliceBytes(SubSeq(slice, 1, k))
                  /\ progress' = Add(progress, BatchesOf(k))
                  /\ err' = "error"
           \/ /\ out' = out \o SliceBytes(slice)
              /\ progress' = Add(progress, Len(slice))
              /\ err' = "nil"
    /\ UNCHANGED <<inputVars, trackerVars, scanned, hasNext, set, bytesUsed, previousLen,
                   currentLen, lineCount, tmpFiles, removed, mergeVars>>

\* after the loop, nothing was spilled: the set is written to the
\* destination, which becomes the only chunk
FinalDirect ==
    /\ pc = "split_final"
    /\ ScannerErr = "nil"
    /\ Len(chunks) = 0
    /\ pc' = "split_returned"
    /\ chunks' = Append(chunks, outFile)
    /\ LET slice == sortKeys(set)
       IN  \/ \E k \in 0..Len(slice) :
                  /\ out' = out \o SliceBytes(SubSeq(slice, 1, k))
                  /\ progress' = Add(progress, BatchesOf(k))
                  /\ err' = "error"
           \/ /\ out' = out \o SliceBytes(slice)
              /\ progress' = Add(progress, Len(slice))
              /\ err' = "nil"
    /\ UNCHANGED <<inputVars, trackerVars, scanned, hasNext, set, bytesUsed, previousLen,
                   currentLen, lineCount, tmpFiles, removed, mergeVars>>

(***************************************************************************)
(* Dedup, after splitSortDeduplicate has returned.                         *)
(***************************************************************************)
\* if err != nil { return err }; if len(chunks) <= 1 { return nil }
DedupReturnEarly ==
    /\ pc = "split_returned"
    /\ err # "nil" \/ Len(chunks) <= 1
    /\ pc' = "return"
    /\ UNCHANGED <<inputVars, trackerVars, splitVars, lineCount, progress, tmpFiles, out,
                   removed, mergeVars, err>>

\* the first token of each chunk: ss.next() on a fresh scanner
FirstTokens == [i \in 1..Len(chunks) |-> ScanLines(Content(chunks[i]))]

\* the sortableScanner of chunk i after its first next()
Cursor(i) == [f |-> chunks[i], n |-> 1, token |-> FirstTokens[i][1]]

\* mergeChunks called without the test of the error splitSortDeduplicate
\* returned: the chunks written so far are merged after a failure
mergeChunksAfterError ==
    /\ pc = "split_returned"
    /\ Len(chunks) > 1
    /\ \/ /\ err' = "error"
          /\ pc' = "return"
          /\ UNCHANGED <<scanners, lineCount>>
       \/ IF \E i \in 1..Len(chunks) : FirstTokens[i] = <<>>
          THEN /\ err' = "panic"
               /\ pc' = "return"
               /\ UNCHANGED <<scanners, lineCount>>
          ELSE /\ scanners' = [i \in 1..Len(chunks) |-> Cursor(i)]
               /\ lineCount' = 0
               /\ pc' = "merge_loop"
               /\ err' = err
    /\ UNCHANGED <<inputVars, trackerVars, splitVars, progress, tmpFiles, out,
                   removed, previousLine, hasPrevious>>

\* mergeChunks: a cursor is opened on every chunk (Seek or the first read
\* may fail); a chunk without a token panics
mergeChunks ==
    /\ pc = "split_returned"
    /\ err = "nil"
    /\ Len(chunks) > 1
    /\ \/ /\ err' = "error"
          /\ pc' = "return"
          /\ UNCHANGED <<scanners, lineCount>>
       \/ IF \E i \in 1..Len(chunks) : FirstTokens[i] = <<>>
          THEN /\ err' = "panic"
               /\ pc' = "return"
               /\ UNCHANGED <<scanners, lineCount>>
          ELSE /\ scanners' = [i \in 1..Len(chunks) |-> Cursor(i)]
               /\ lineCount' = 0
               /\ pc' = "merge_loop"
               /\ err' = err
    /\ UNCHANGED <<inputVars, trackerVars, splitVars, progress, tmpFiles, out, removed,
                   previousLine, hasPrevious>>

(***************************************************************************)
(* mergeSortableScanners.                                                  *)
(***************************************************************************)
Orderings(n) ==
    {p \in [1..n -> 1..n] : \A i, j \in 1..n : i # j => p[i] # p[j]}

\* sort.Slice(scanners, sortScanners): the scanners ordered by token; the
\* sort is not stable, equal tokens end in any order
SortSlice(ss) ==
    {[i \in 1..Len(ss) |-> ss[p[i]]] : p \in
        {q \in Orderings(Len(ss)) :
            \A i \in 1..(Len(ss) - 1) : ~Less(ss[q[i + 1]].token, ss[q[i]].token)}}

\* whether the top token is written: !hasPrevious || previousLine != token
IsNew(has, previous, token) == ~has \/ previous # token

\* scanners[0].next(): the cursor on its next token, or the cursor dropped
\* from the slice when its chunk has no more
Advance(ss) ==
    LET toks == ScanLines(Content(ss[1].f))
    IN  IF ss[1].n < Len(toks)
        THEN [ss EXCEPT ![1] = [f |-> ss[1].f, n |-> ss[1].n + 1,
                                token |-> toks[ss[1].n + 1]]]
        ELSE Tail(ss)

\* one iteration of the merge loop (the write or the read may fail)
MergeStep ==
    /\ pc = "merge_loop"
    /\ Len(scanners) > 0
    /\ \E sorted \in SortSlice(scanners) :
         LET token == sorted[1].token
             write == IsNew(hasPrevious, previousLine, token)
             written == IF write THEN out \o token \o <<delimiter>> ELSE out
         IN  \/ \* writer.WriteString / WriteByte fails
                /\ write
                /\ err' = "error"
                /\ pc' = "return"
                /\ scanners' = sorted
                /\ UNCHANGED <<out, previousLine, hasPrevious, lineCount,
                               progress>>
             \/ \* scanners[0].next() fails
                /\ out' = written
                /\ previousLine' = token
                /\ hasPrevious' = TRUE
                /\ lineCount' = Batched(lineCount)
                /\ progress' = Flushed(progress, lineCount)
                /\ scanners' = sorted
                /\ err' = "error"
                /\ pc' = "return"
             \/ /\ out' = written
                /\ previousLine' = token
                /\ hasPrevious' = TRUE
                /\ lineCount' = Batched(lineCount)
                /\ progress' = Flushed(progress, lineCount)
                /\ scanners' = Advance(sorted)
                /\ UNCHANGED <<pc, err>>
    /\ UNCHANGED <<inputVars, trackerVars, splitVars, tmpFiles, removed>>

\* no scanner is left: the batch is added and the writer flushed
MergeFinish ==
    /\ pc = "merge_loop"
    /\ Len(scanners) = 0
    /\ progress' = Add(progress, lineCount)
    /\ \/ err' = "error"
       \/ err' = "nil"
    /\ pc' = "return"
    /\ UNCHANGED <<inputVars, trackerVars, splitVars, lineCount, tmpFiles, out, removed,
                   mergeVars>>

(***************************************************************************)
(* The deferred cleanup of Dedup.                                          *)
(***************************************************************************)
\* CleanupTargets leaving the loop after the first file it removed
CleanupFirstOnly(cs) ==
    LET files == SelectSeq(cs, LAMBDA chunk : chunk # outFile)
    IN  IF files = <<>> THEN <<>> ELSE <<files[1]>>

\* CleanupTargets without the chunk != outFile test
CleanupEverything(cs) == cs

\* CleanupTargets run over the chunk list a second time
CleanupTwice(cs) == SelectSeq(cs \o cs, LAMBDA chunk : chunk # outFile)

\* the chunks the deferred function closes and removes
CleanupTargets(cs) == SelectSeq(cs, LAMBDA chunk : chunk # outFile)

\* Cleanup run from inside the merge as well: the temporary files are
\* removed while cursors still read them
CleanupDuringMerge ==
    /\ \/ pc = "return"
       \/ pc = "merge_loop" /\ removed = <<>>
    /\ removed' = removed \o CleanupTargets(chunks)
    /\ pc' = IF pc = "return" THEN "done" ELSE pc
    /\ UNCHANGED <<inputVars, trackerVars, splitVars, lineCount, progress,
                   tmpFiles, out, mergeVars, err>>

\* Dedup returns: every chunk but outFile is closed and removed
Cleanup ==
    /\ pc = "return"
    /\ removed' = removed \o CleanupTargets(chunks)
    /\ pc' = "done"
    /\ UNCHANGED <<inputVars, trackerVars, splitVars, lineCount, progress, tmpFiles, out,
                   mergeVars, err>>

Next ==
    \/ SplitStart
    \/ LoopSkip
    \/ LoopBreak
    \/ LoopKeep
    \/ LoopSpill
    \/ FinalReadError
    \/ FinalTemp
    \/ FinalDirect
    \/ DedupReturnEarly
    \/ mergeChunks
    \/ MergeStep
    \/ MergeFinish
    \/ Cleanup

Spec == Init /\ [][Next]_vars

\* Dedup is one sequential call: it keeps taking steps until it returns
InitShort == Init /\ Len(InTokens) <= MaxShortLines

FairSpec == InitShort /\ [][Next]_vars /\ WF_vars(Next)

(***************************************************************************)
(* A second call of Dedup, on the destination of the first.                *)
(***************************************************************************)
\* the caller runs Dedup again: the destination a successful run wrote is
\* the input, the skip patterns are the same, the threshold is any
Rerun ==
    /\ pc = "done"
    /\ err = "nil"
    /\ ~rerun
    /\ rerun' = TRUE
    /\ inFile' = out
    /\ inFileErr' = FALSE
    /\ tmpFileBytes' \in 1..MaxThreshold
    /\ pc' = "split_start"
    /\ scanned' = 0
    /\ hasNext' = FALSE
    /\ set' = {}
    /\ chunks' = <<>>
    /\ bytesUsed' = 0
    /\ previousLen' = 0
    /\ currentLen' = 0
    /\ lineCount' = 0
    /\ progress' = 0
    /\ tmpFiles' = <<>>
    /\ out' = <<>>
    /\ removed' = <<>>
    /\ scanners' = <<>>
    /\ previousLine' = <<>>
    /\ hasPrevious' = FALSE
    /\ UNCHANGED <<skipPatterns, inFileAgain, inFileAgainErr, trackerVars, err>>

NextRerun ==
    \/ Next
    \/ Rerun

SpecRerun == Init /\ [][NextRerun]_vars

(***************************************************************************)
(* The progress tracker: the goroutine Dedup starts when inFileAgain is    *)
(* not nil.  It counts the lines of inFileAgain, then reports the progress *)
(* counter at every tick until the context of Dedup is cancelled (the      *)
(* deferred cancel() runs when Dedup returns).                             *)
(***************************************************************************)
pipelineVars == <<pc, splitVars, lineCount, progress, tmpFiles, out, removed,
                  mergeVars, err>>

\* countLines adding the final line only after a last byte was read: the
\* count of an empty stream is zero
countLinesOfZero(data) ==
    Cardinality({i \in 1..Len(data) : data[i] = delimiter})
        + (IF data # <<>> /\ data[Len(data)] # delimiter THEN 1 ELSE 0)

\* countLines: the delimiters of the stream, and one more when the last
\* byte read is not a delimiter (last is the zero byte when nothing was read)
countLines(data) ==
    Cardinality({i \in 1..Len(data) : data[i] = delimiter})
        + (IF data = <<>> \/ data[Len(data)] # delimiter THEN 1 ELSE 0)

Message(text, n) == [text |-> text, n |-> n]

\* the progress messages printed so far
Ticks == Len(SelectSeq(printed, LAMBDA m : m.text = "Progress"))

\* TrackerCount returning the error of countLines to Dedup: the run is
\* aborted with it
TrackerCountAborts ==
    /\ tracker = "counting"
    /\ IF inFileAgainErr
       THEN /\ printed' = Append(printed, Message("Error counting lines", 0))
            /\ goal' = goal
            /\ tracker' = "returned"
            /\ err' = IF pc \in {"return", "done"} THEN err ELSE "read error"
            /\ pc' = IF pc \in {"return", "done"} THEN pc ELSE "return"
       ELSE /\ printed' = Append(printed, Message("Finished counting lines",
                                                  countLines(inFile)))
            /\ goal' = 2 * countLines(inFile)
            /\ tracker' = "ticking"
            /\ UNCHANGED <<pc, err>>
    /\ UNCHANGED <<inputVars, splitVars, lineCount, progress, tmpFiles, out,
                   removed, mergeVars>>

\* goal, countErr := countLines(inFileAgain): on an error the goroutine
\* prints it and returns; otherwise the goal is doubled and the ticker made
TrackerCount ==
    /\ tracker = "counting"
    /\ IF inFileAgainErr
       THEN /\ printed' = Append(printed, Message("Error counting lines", 0))
            /\ goal' = goal
            /\ tracker' = "returned"
       ELSE /\ printed' = Append(printed, Message("Finished counting lines",
                                                  countLines(inFile)))
            /\ goal' = 2 * countLines(inFile)
            /\ tracker' = "ticking"
    /\ UNCHANGED <<inputVars, pipelineVars>>

\* TrackerTick storing to the progress counter it reports: the count of
\* the pipeline is reset
TrackerTickStores ==
    /\ tracker = "ticking"
    /\ Ticks < MaxTicks
    /\ printed' = Append(printed, Message("Progress", (progress * 100) \div goal))
    /\ progress' = 0
    /\ UNCHANGED <<inputVars, pc, splitVars, lineCount, tmpFiles, out, removed,
                   mergeVars, err, tracker, goal>>

\* case <-ticker.C: the progress counter is loaded and reported
TrackerTick ==
    /\ tracker = "ticking"
    /\ Ticks < MaxTicks
    /\ printed' = Append(printed, Message("Progress", (progress * 100) \div goal))
    /\ UNCHANGED <<inputVars, pipelineVars, tracker, goal>>

\* TrackerCancel taken only after a progress report: the goroutine looks at
\* ctx.Done() once the ticker has fired
TrackerCancelAfterReport ==
    /\ tracker = "ticking"
    /\ pc = "done"
    /\ Ticks > 0
    /\ tracker' = "returned"
    /\ UNCHANGED <<inputVars, pipelineVars, goal, printed>>

\* case <-ctx.Done(): the goroutine returns
TrackerCancel ==
    /\ tracker = "ticking"
    /\ pc = "done"
    /\ tracker' = "returned"
    /\ UNCHANGED <<inputVars, pipelineVars, goal, printed>>

ShortFiles ==
    {Join(ls, t) : ls \in SeqsUpTo(RawLines, MaxShortLines), t \in BOOLEAN}

InitTracker ==
    /\ inFile \in ShortFiles
    /\ inFileErr \in BOOLEAN
    /\ skipPatterns \in PatternLists
    /\ tmpFileBytes \in 1..MaxShortThreshold
    /\ inFileAgain \in {"nil", "stream"}
    /\ inFileAgainErr \in BOOLEAN
    /\ inFileAgain = "nil" => ~inFileAgainErr
    /\ tracker = IF inFileAgain = "nil" THEN "none" ELSE "counting"
    /\ goal = 0
    /\ printed = <<>>
    /\ rerun = FALSE
    /\ pc = "split_start"
    /\ scanned = 0
    /\ hasNext = FALSE
    /\ set = {}
    /\ chunks = <<>>
    /\ bytesUsed = 0
    /\ previousLen = 0
    /\ currentLen = 0
    /\ lineCount = 0
    /\ progress = 0
    /\ tmpFiles = <<>>
    /\ out = <<>>
    /\ removed = <<>>
    /\ scanners = <<>>
    /\ previousLine = <<>>
    /\ hasPrevious = FALSE
    /\ err = "nil"

NextTracker ==
    \/ Next
    \/ TrackerCount
    \/ TrackerTick
    \/ TrackerCancel

SpecTracker == InitTracker /\ [][NextTracker]_vars

\* the goroutine is scheduled: its count of a finite stream comes to an end,
\* and its select takes the closed ctx.Done() when nothing else is chosen
FairSpecTracker ==
    /\ InitTracker
    /\ [][NextTracker]_vars
    /\ WF_vars(TrackerCount)
    /\ WF_vars(TrackerCancel)

(***************************************************************************)
(* Vocabulary of the properties.                                           *)
(***************************************************************************)
\* Dedup has returned
Done == pc = "done"

\* Dedup has returned nil
Success == Done /\ err = "nil"

\* the records of the input: the tokens the input scanner yields
InputRecords == Range(InTokens)

\* the records of the input no skip pattern matches
Kept == {r \in InputRecords : ~Skipped(skipPatterns, r)}

\* the records of the destination
OutRecords == Records(out)

\* the number of places of s that hold r
Count(s, r) == Cardinality({i \in 1..Len(s) : s[i] = r})

\* the temporary files os.CreateTemp has made
Created == 1..Len(tmpFiles)

\* the last record of the input is matched by a skip pattern
LastSkipped ==
    Len(InTokens) > 0 /\ Skipped(skipPatterns, InTokens[Len(InTokens)])

\* the set a run that never spills holds when its loop ends: the kept
\* records, and the empty line read after a skipped last record
SetAtEnd ==
    Kept \cup (IF LastSkipped /\ ~Skipped(skipPatterns, <<>>) THEN {<<>>} ELSE {})

\* the bytes a run that never spills writes to the destination
NoSpillOutput == SliceBytes(sortKeys(SetAtEnd))

\* the size of the deduplicated output: length + 1 for each kept record
RECURSIVE SizeOf(_)
SizeOf(S) ==
    IF S = {} THEN 0
    ELSE LET x == CHOOSE y \in S : TRUE
         IN  Len(x) + 1 + SizeOf(S \ {x})

\* no byte of the input is a carriage return
NoCarriageReturn == \A i \in 1..Len(inFile) : inFile[i] # CR

(***************************************************************************)
(* The claims.                                                             *)
(***************************************************************************)

\* C1 (completeness): when Dedup returns success, every distinct record of
\* the input that no skip pattern matches is in the destination exactly
\* once.  Violated: a record ending in a carriage return is written to a
\* temporary chunk and loses the carriage return when the merge reads the
\* chunk back.
Completeness ==
    Success => \A r \in Kept : Count(OutRecords, r) = 1

\* Lemma to C1: completeness holds of every input without a carriage return.
CompletenessWithoutCR ==
    (Success /\ NoCarriageReturn) => \A r \in Kept : Count(OutRecords, r) = 1

\* C2 (no spurious records): every record written to the destination is a
\* record of the input that no skip pattern matches.  Violated: after a
\* skipped last record the loop reads the scanner once more and admits the
\* empty line.
NoSpuriousRecords ==
    \A r \in Range(OutRecords) : r \in Kept

\* Lemma to C2: no spurious record when the last record is not skipped and
\* the input holds no carriage return.
NoSpuriousRecordsLastKept ==
    (NoCarriageReturn /\ ~LastSkipped) => \A r \in Range(OutRecords) : r \in Kept

\* C3 (filter exclusion): no record a skip pattern matches is in the
\* working set, in a temporary chunk or in the destination.  Violated in
\* the destination: a record the patterns do not match reaches it without
\* its carriage return, as a record they match.
FilterExclusion ==
    /\ \A r \in set : ~Skipped(skipPatterns, r)
    /\ \A f \in Created : \A r \in Range(Records(tmpFiles[f])) :
           ~Skipped(skipPatterns, r)
    /\ \A r \in Range(OutRecords) : ~Skipped(skipPatterns, r)

\* Lemma to C3: the working set and the temporary chunks hold no record a
\* skip pattern matches.
FilterExclusionBeforeMerge ==
    /\ \A r \in set : ~Skipped(skipPatterns, r)
    /\ \A f \in Created : \A r \in Range(Records(tmpFiles[f])) :
           ~Skipped(skipPatterns, r)

\* C4 (global order): at every point of a run the records written so far
\* to the destination are non-decreasing.  Violated on the merge path: a
\* chunk sorted as written is not sorted as read back, once a carriage
\* return is dropped from a record that sorts after a tab.
GlobalOrder == IsSorted(OutRecords)

\* Lemma to C4: the destination is strictly increasing for every input
\* without a carriage return.
GlobalOrderWithoutCR == NoCarriageReturn => IsStrictlySorted(OutRecords)

\* C5 (threshold invariance): on a successful run the destination holds
\* what the run that never spills writes, whatever the threshold.
\* Violated: the merge path drops the carriage return the direct path
\* keeps.
ThresholdInvariance == Success => out = NoSpillOutput

\* Lemma to C5: threshold invariance holds of every input without a
\* carriage return.
ThresholdInvarianceWithoutCR ==
    (Success /\ NoCarriageReturn) => out = NoSpillOutput

\* C6 (cleanup guarantee): every temporary file created is in the chunk
\* list the cleanup iterates over, and once Dedup has returned (success,
\* failure in the spill stage, failure in the merge) it has been removed.
CleanupGuarantee ==
    /\ Created \subseteq Range(chunks)
    /\ Done => Created \subseteq Range(removed)

\* witness of C6: Dedup has returned after a failure in the middle of the
\* merge, with temporary chunks created and part of the output written
CleanupAfterMergeFailure ==
    /\ Done
    /\ err = "error"
    /\ Len(scanners) > 0
    /\ Len(tmpFiles) >= 2
    /\ out # <<>>

\* C7: the destination file is never closed and removed, also when it is
\* the only element of the chunk list.
DestinationKept == outFile \notin Range(removed)

\* witness of C7: Dedup has returned from the direct path, where the
\* destination is the chunk list's single element
ReturnedFromDirectPath ==
    /\ Done
    /\ chunks = <<outFile>>
    /\ out # <<>>

\* C8: every temporary file created is removed exactly once over the run:
\* never twice at any point, and once when Dedup has returned.
RemovedExactlyOnce ==
    /\ \A f \in Created : Count(removed, f) <= 1
    /\ Done => \A f \in Created : Count(removed, f) = 1

\* witness of C8: Dedup has returned success after a merge of three chunks
ReturnedFromMerge ==
    /\ Success
    /\ Len(tmpFiles) >= 3
    /\ Len(removed) >= 3

\* C9 (empty input): an input that yields no record creates no temporary
\* chunk, writes nothing to the destination, never enters the merge, and
\* (the input ending without a read error) returns success.
EmptyInputNoOp ==
    InTokens = <<>> =>
        /\ tmpFiles = <<>>
        /\ chunks = <<>>
        /\ out = <<>>
        /\ pc # "merge_loop"
        /\ scanners = <<>>
        /\ ~inFileErr => err = "nil"

\* witness of C9: Dedup has returned success on the empty input
ReturnedFromEmptyInput ==
    /\ Done
    /\ inFile = <<>>
    /\ err = "nil"

\* C10: a threshold larger than the size of the deduplicated output means
\* no spill: no temporary file is created and the merge is not entered.
\* Violated: the spill test adds the length of the upcoming line, also when
\* that line is a duplicate or is skipped.
NoSpillWhenOutputFits ==
    tmpFileBytes > SizeOf(Kept) => (tmpFiles = <<>> /\ pc # "merge_loop")

\* Lemma to C10: no spill when the threshold is larger than the size of
\* the whole input as scanned (every token, with its delimiter).
RECURSIVE SizeOfAll(_)
SizeOfAll(s) == IF s = <<>> THEN 0 ELSE Len(s[1]) + 1 + SizeOfAll(Tail(s))

NoSpillWhenInputFits ==
    tmpFileBytes > SizeOfAll(InTokens) => (tmpFiles = <<>> /\ pc # "merge_loop")

(***************************************************************************)
(* The size of the temporary files.                                        *)
(***************************************************************************)
\* C11: tmpFileBytes is the maximum temporary file size: no temporary file
\* written by the spill stage holds more bytes (the records, and one
\* delimiter for each) than the threshold.
ChunkWithinThreshold ==
    \A f \in 1..Len(tmpFiles) : Len(tmpFiles[f]) <= tmpFileBytes

(***************************************************************************)
(* Running Dedup on its own output.                                        *)
(***************************************************************************)
\* C12 (idempotence): Dedup run on the destination of a successful run, with
\* any threshold and the same skip patterns, writes a destination identical
\* to its input.
Idempotence == (rerun /\ Success) => out = inFile

\* the destination of the first run is what a run is specified to write:
\* strictly increasing records, none ending in a carriage return, none
\* matched by a skip pattern
WellFormedDestination ==
    /\ NoCarriageReturn
    /\ IsStrictlySorted(Records(inFile))
    /\ \A i \in 1..Len(InTokens) : ~Skipped(skipPatterns, InTokens[i])

\* Lemma: the second run reproduces every well-formed destination.
IdempotenceWellFormed ==
    (rerun /\ Success /\ WellFormedDestination) => out = inFile

(***************************************************************************)
(* The contracts of the two stages.                                        *)
(***************************************************************************)
\* the records of all temporary files
ChunkRecords == UNION {Range(Records(tmpFiles[f])) : f \in 1..Len(tmpFiles)}

\* every temporary file holds strictly increasing records
ChunksIncreasing ==
    \A f \in 1..Len(tmpFiles) : IsStrictlySorted(Records(tmpFiles[f]))

\* the merge has run over the chunks and returned nil
Merged == pc \in {"return", "done"} /\ err = "nil" /\ Len(chunks) > 1

\* no byte of a temporary file is a carriage return
NoCarriageReturnInChunks ==
    \A f \in 1..Len(tmpFiles) :
        \A i \in 1..Len(tmpFiles[f]) : tmpFiles[f][i] # CR

\* C13 (merge contract): given chunks that each hold strictly increasing
\* records, the merge writes to the destination exactly the sorted union of
\* the records of all chunks, each once.
MergeContract ==
    (Merged /\ ChunksIncreasing) => Records(out) = sortKeys(ChunkRecords)

\* Lemma: the merge contract holds over chunks without carriage return.
MergeContractWithoutCR ==
    (Merged /\ ChunksIncreasing /\ NoCarriageReturnInChunks)
        => Records(out) = sortKeys(ChunkRecords)

\* the records read so far that no skip pattern matches: the loop has gone
\* through the tokens before the scanner's position
KeptSoFar ==
    {r \in {InTokens[i] : i \in 1..Min(scanned - 1, Len(InTokens))} :
        ~Skipped(skipPatterns, r)}

\* C14 (spill contract): at every point of the spill stage the records of
\* the chunks written and of the working set together are the distinct
\* non-filtered records read so far, and when the stage has returned the
\* records of all its chunks are the distinct non-filtered input records.
SpillContract ==
    /\ pc \in {"split_loop", "split_final"}
           => ChunkRecords \cup set = KeptSoFar
    /\ (pc = "split_returned" /\ err = "nil")
           => ChunkRecords \cup Range(Records(out)) = Kept

\* Lemma: the spill contract holds when the last record of the input is not
\* matched by a skip pattern.
SpillContractLastKept ==
    ~LastSkipped => SpillContract

(***************************************************************************)
(* The progress tracker.                                                   *)
(***************************************************************************)
\* the places where Dedup meets the goroutine: it starts it before the
\* first Scan and cancels its context when it returns.  At none of them
\* does it wait: its next step can be taken whatever the tracker does.
DedupNeverWaits ==
    /\ pc = "split_start" => ENABLED SplitStart
    /\ pc = "split_returned" => ENABLED (DedupReturnEarly \/ mergeChunks)
    /\ pc = "return" => ENABLED Cleanup

\* C15 (the progress tracker only observes): a step of the tracker changes
\* nothing the pipeline reads or writes (the inputs, the position of Dedup,
\* the working set, the chunks, the destination, the error), so the result,
\* the destination and the chunks of a run are what they are without
\* inFileAgain; and the pipeline never waits for the tracker.
TrackerOnlyObserves ==
    /\ [][trackerVars' # trackerVars
              => UNCHANGED <<inputVars, pipelineVars>>]_vars
    /\ []DedupNeverWaits

\* witness of C15: a run with inFileAgain has spilled, merged and returned
\* nil, and the tracker reported a progress above zero on the way
TrackedRunSucceeded ==
    /\ Success
    /\ inFileAgain = "stream"
    /\ Len(chunks) > 1
    /\ Ticks > 0
    /\ \E i \in 1..Len(printed) :
           printed[i].text = "Progress" /\ printed[i].n > 0

\* C16: the tracker never logs after completion: once Dedup has returned,
\* the goroutine prints nothing more, also when its count of inFileAgain
\* was still running or a tick was pending at that moment.
NoOutputAfterReturn == [][pc = "done" => printed' = printed]_vars

(***************************************************************************)
(* Failures.                                                               *)
(***************************************************************************)
\* a Scan of the primary input has returned false on a read error: before
\* the first record, between records, or after a skipped record
ReadFailed == inFileErr /\ ~hasNext /\ pc # "split_start"

\* Dedup has returned the read error: the merge was not entered and every
\* temporary file is removed
ReadErrorReturned ==
    /\ Done
    /\ err = "read error"
    /\ scanners = <<>>
    /\ Created \subseteq Range(removed)

\* C17: a read failure on the primary input at any point of the spill stage
\* is surfaced: Dedup returns that error, the merge is not entered and the
\* temporary chunks are removed.
ReadFailureSurfaced == ReadFailed ~> ReadErrorReturned

\* Lemma: when Dedup returns after a read failure, it returns that error,
\* without a merge and with the temporary chunks removed.
ReadFailureReturned == (ReadFailed /\ Done) => ReadErrorReturned

\* the count of inFileAgain has failed and the goroutine has returned
CountFailed == inFileAgainErr /\ tracker = "returned"

\* C18, as the spec states it: a read failure on the secondary stream aborts
\* the run: Dedup returns an error instead of completing.
SecondaryFailureAborts == (Done /\ CountFailed) => err # "nil"

\* C18, amended: a read failure on the secondary stream is only reported.
\* The step that meets it prints "Error counting lines" and ends the
\* tracker, which prints nothing else; it changes nothing of the pipeline,
\* neither its position nor its error, so the run goes on to its own result.
SecondaryFailureOnlyReported ==
    /\ [][(tracker = "counting" /\ tracker' = "returned")
              => /\ printed' = Append(printed, Message("Error counting lines", 0))
                 /\ UNCHANGED <<inputVars, pipelineVars>>]_vars
    /\ [](CountFailed => printed = <<Message("Error counting lines", 0)>>)

\* witness of C18: the count of inFileAgain failed before the run had read
\* its input, and Dedup has returned nil with a destination written
SecondaryFailedRunSucceeded ==
    /\ Success
    /\ CountFailed
    /\ printed = <<Message("Error counting lines", 0)>>
    /\ out # <<>>

\* C19: an output failure (creating, writing or flushing a temporary chunk
\* or the destination, reading a chunk back in the merge) ends the run at
\* once: after the failing step no record is read, spilled or merged, and
\* the error Dedup returns is that first error.
OutputFailureStops ==
    [][err = "error"
           => UNCHANGED <<scanned, hasNext, set, chunks, tmpFiles, out,
                          scanners, previousLine, err>>]_vars

\* witness of C19: Dedup has returned the error of a spill that failed with
\* part of a temporary file written and part of the input unread
OutputFailureReturned ==
    /\ Done
    /\ err = "error"
    /\ scanners = <<>>
    /\ scanned <= Len(InTokens)
    /\ Len(tmpFiles) >= 2
    /\ set # {}

\* C20: Dedup terminates for every finite input and every list of skip
\* patterns: the loop of the spill stage reaches its end-of-input exit,
\* and Dedup returns.
Terminates == <>Done

(***************************************************************************)
(* The life of the chunks.                                                 *)
(***************************************************************************)
\* the chunks whose cursor the merge has dropped: no scanner reads them
Exhausted ==
    {f \in Range(chunks) : \A i \in 1..Len(scanners) : scanners[i].f # f}

\* C21, as the spec states it: during the merge a chunk is deleted the
\* moment its cursor is exhausted: when the merge takes a further step
\* after a cursor has run out, the file of that chunk no longer exists.
ExhaustedChunkDeleted ==
    pc = "merge_loop" => Exhausted \subseteq Range(removed)

\* C21, amended: the merge deletes nothing.  An exhausted cursor is only
\* dropped from the slice of scanners; every temporary chunk exists as long
\* as the merge runs and is removed when Dedup returns.
ChunksKeptUntilReturn ==
    /\ pc # "done" => removed = <<>>
    /\ Done => Range(removed) = Created

\* witness of C21: the merge goes on after a cursor was exhausted, and the
\* file of that cursor has not been removed
MergeGoesOnAfterExhaustion ==
    /\ pc = "merge_loop"
    /\ Len(scanners) > 0
    /\ Exhausted # {}
    /\ removed = <<>>

(***************************************************************************)
(* The byte budget.                                                        *)
(***************************************************************************)
\* an iteration of the loop admits a record new to the set while another
\* record is pending: the iteration that tests the budget
TestsBudget ==
    /\ pc = "split_loop"
    /\ ~Skipped(skipPatterns, Line)
    /\ More
    /\ Line \notin set

\* the step writes a temporary file, or fails trying to
Spills == Len(tmpFiles') > Len(tmpFiles) \/ err' = "error"

\* C22 (spill trigger boundary): the spill fires when the byte counter plus
\* the size (length + 1) of the pending record meets or exceeds the
\* threshold, in particular when the sum equals the threshold.
SpillAtThreshold ==
    [][(TestsBudget /\ Charge(bytesUsed, Line) + Len(Upcoming) + 1 >= tmpFileBytes)
           => Spills]_vars

\* Lemma: the spill fires exactly when the sum exceeds the threshold.
SpillAboveThreshold ==
    [][TestsBudget
           => (Spills <=> Charge(bytesUsed, Line) + Len(Upcoming) + 1 > tmpFileBytes)]_vars

\* C23: only new distinct non-filtered records count toward the spill: a
\* pending record that a skip pattern matches, or that is already in the
\* working set, never causes a spill.
OnlyNewRecordsSpill ==
    [][(pc = "split_loop" /\ Spills)
           => /\ ~Skipped(skipPatterns, Upcoming)
              /\ Upcoming \notin Admit(set, Line)]_vars

\* Lemma: a spill happens only in an iteration that admits a new record,
\* never in the iteration of a filtered record or of a duplicate.
OnlyNewRecordsAreCharged ==
    [][(pc = "split_loop" /\ (Spills \/ bytesUsed' > bytesUsed))
           => /\ ~Skipped(skipPatterns, Line)
              /\ Line \notin set]_vars

\* C24, as the spec states it: at the end of every iteration of the spill
\* loop, the one that leaves the loop included, the byte counter is the sum
\* of length + 1 over the records of the working set.
CounterIsSizeOfSet ==
    pc \in {"split_loop", "split_final"} => bytesUsed = SizeOf(set)

\* C24, amended: at the start of every iteration (after every iteration
\* that stays in the loop) the counter is the sum of length + 1 over the
\* records of the working set, and it is 0 exactly when the set is empty;
\* duplicates and filtered records add nothing.  The iteration that leaves
\* the loop admits its record without charging it: after the loop the
\* counter is short by the size of that record when it was new.
CounterIsSizeOfSetInLoop ==
    /\ pc = "split_loop" => bytesUsed = SizeOf(set)
    /\ pc = "split_loop" => (bytesUsed = 0 <=> set = {})
    /\ pc = "split_final" =>
           \/ bytesUsed = SizeOf(set)
           \/ bytesUsed + Len(Text(Len(InTokens))) + 1 = SizeOf(set)
           \/ LastSkipped /\ bytesUsed + 1 = SizeOf(set)

\* witness of C24: the loop has admitted a record and then gone through a
\* duplicate of it, and the counter is the size of that one record
CounterAfterDuplicate ==
    /\ pc = "split_loop"
    /\ scanned = 3
    /\ Text(1) = Text(2)
    /\ set = {Text(1)}
    /\ bytesUsed = Len(Text(1)) + 1

\* the record admitted last: the token before the scanner's position
LastAdmitted == Text(scanned - 1)

\* C25 (slack bound): the byte counter never exceeds the threshold by more
\* than the size of the record admitted last; and the excess is transient:
\* an iteration that takes the counter above the threshold while another
\* record is pending spills, so that the loop goes on with the counter
\* within the threshold (it stays above only where that spill has failed).
SlackBound ==
    /\ [](/\ bytesUsed <= tmpFileBytes + Len(LastAdmitted) + 1
          /\ pc = "split_loop" => bytesUsed <= tmpFileBytes
          /\ bytesUsed > tmpFileBytes => err = "error")
    /\ [][(TestsBudget /\ Charge(bytesUsed, Line) > tmpFileBytes)
              => Spills]_vars

\* witness of C25: after a first chunk was written, a record larger than
\* the threshold was admitted with another record pending, and the spill
\* it caused has failed: the counter is above the threshold
CounterAboveThreshold ==
    /\ bytesUsed > tmpFileBytes
    /\ bytesUsed <= tmpFileBytes + Len(LastAdmitted) + 1
    /\ Len(tmpFiles) >= 2
    /\ scanned <= Len(InTokens)
    /\ err = "error"

NoEmptyChunk ==
    /\ err # "panic"
    /\ (pc = "split_returned" /\ err = "nil")
           => \A i \in 1..Len(chunks) : FirstTokens[i] # <<>>

\* witness of C27: the merge runs over a last chunk written after a spill
\* that only skipped records followed
MergeAfterSkippedTail ==
    /\ pc = "merge_loop"
    /\ Len(tmpFiles) = 2
    /\ LastSkipped
    /\ scanned = Len(InTokens) + 1
    /\ Skipped(skipPatterns, Text(Len(InTokens)))
    /\ tmpFiles[2] = <<delimiter>>
    /\ <<>> \notin InputRecords

\* C28: the destination is a chunk only when nothing was spilled, and then
\* it is the only chunk and no merge runs; after a spill the last chunk is a
\* fresh temporary file, the destination holds no byte until the merge
\* starts, and no cursor of the merge reads the destination.
DestinationNeverMerged ==
    /\ outFile \in Range(chunks)
           => chunks = <<outFile>> /\ tmpFiles = <<>> /\ pc # "merge_loop"
    /\ (Len(tmpFiles) >= 1 /\ pc \in {"split_loop", "split_final", "split_returned"})
           => out = <<>>
    /\ (Len(tmpFiles) >= 1 /\ pc = "split_returned" /\ err = "nil")
           => chunks = [f \in 1..Len(tmpFiles) |-> f]
    /\ \A i \in 1..Len(scanners) : scanners[i].f # outFile
    /\ pc = "merge_loop" => Len(chunks) >= 2

\* witness of C28: the split has returned two temporary chunks and the
\* destination is still empty
DestinationEmptyBeforeMerge ==
    /\ pc = "split_returned"
    /\ err = "nil"
    /\ Len(tmpFiles) = 2
    /\ chunks = <<1, 2>>
    /\ Len(Records(tmpFiles[2])) >= 1
    /\ out = <<>>

\* C29 (merge order): in the merge, the record selected at a step (written
\* or dropped as a duplicate) is never smaller than the record selected at
\* the step before, so the occurrences of a record in different chunks are
\* selected one after the other and the comparison with the last selected
\* record drops every duplicate.  Violated: a chunk record ending in a
\* carriage return is read back shortened (C1), and the tokens of a chunk
\* then no longer increase.
SelectionNonDecreasing ==
    [][(pc = "merge_loop" /\ hasPrevious /\ hasPrevious')
           => LessEq(previousLine, previousLine')]_vars

\* Lemma: over chunks without carriage return the selected records never
\* decrease.
SelectionNonDecreasingWithoutCR ==
    [][(pc = "merge_loop" /\ hasPrevious /\ hasPrevious'
            /\ NoCarriageReturnInChunks)
           => LessEq(previousLine, previousLine')]_vars

(***************************************************************************)
(* One run of mergeSortableScanners, with its choices fixed.               *)
(***************************************************************************)
\* the bytes mergeSortableScanners writes from the scanners ss on, when each
\* sort.Slice returns one fixed order among those it may return
RECURSIVE MergeAll(_, _, _)
MergeAll(ss, has, previous) ==
    IF Len(ss) = 0
    THEN <<>>
    ELSE LET sorted == CHOOSE s \in SortSlice(ss) : TRUE
             token == sorted[1].token
             written == IF IsNew(has, previous, token)
                        THEN token \o <<delimiter>>
                        ELSE <<>>
         IN  written \o MergeAll(Advance(sorted), TRUE, token)

\* the cursors mergeChunks opens, the chunks taken in the order p
Cursors(p) == [i \in 1..Len(chunks) |-> Cursor(p[i])]

\* C30 (tie-break independence): the destination does not depend on the
\* order of the chunks in the chunk list nor on the cursor picked among
\* several that hold the same smallest record: every run of the merge writes
\* what the run with fixed choices writes, for every order of the chunks.
\* Violated: after a record ending in a carriage return was read back
\* shortened (C1), the cursor picked among equal records decides whether a
\* record is written once or twice.
TieBreakIndependence ==
    Merged => \A p \in Orderings(Len(chunks)) :
                  out = MergeAll(Cursors(p), FALSE, <<>>)

\* Lemma: over chunks without carriage return the destination is that of
\* the run with fixed choices, for every order of the chunks.
TieBreakIndependenceWithoutCR ==
    (Merged /\ NoCarriageReturnInChunks)
        => \A p \in Orderings(Len(chunks)) :
               out = MergeAll(Cursors(p), FALSE, <<>>)

(***************************************************************************)
(* The progress counter and the pre-count.                                 *)
(***************************************************************************)
\* C31 (progress accounting): when Dedup returns success, the total added
\* to the progress counter is twice the number of records read from the
\* input: one for each record read and one for each record filtered,
\* dropped as a duplicate, written directly or passed by the merge.
\* Violated: after a skipped last record the loop reads the empty line the
\* input never held (C2) and counts it twice more.
ProgressAccounting ==
    Success => progress = 2 * Len(InTokens)

\* Lemma: the total is twice the records read when the last record is not
\* skipped, and two more when it is.
ProgressAccountingLastSkipped ==
    Success => progress = 2 * (Len(InTokens) + (IF LastSkipped THEN 1 ELSE 0))

\* the counts the tracker has printed after countLines
Counted ==
    {printed[i].n : i \in {j \in 1..Len(printed) :
                              printed[j].text = "Finished counting lines"}}

\* C32 (pre-count): the count the tracker takes of a content is the number
\* of records the pipeline reads from that content, whether the content is
\* empty, ends with a delimiter, or ends with a record without delimiter.
\* Violated: countLines returns 1 for the empty content, from which the
\* pipeline reads no record.
PreCountIsRecordCount ==
    \A n \in Counted : n = Len(InTokens)

\* Lemma: the count is the number of records read for every content that is
\* not empty, and 1 for the empty content.
PreCountOfNonEmpty ==
    \A n \in Counted : n = IF inFile = <<>> THEN 1 ELSE Len(InTokens)

\* C33 (cancellation liveness): once Dedup has returned, with nil or with
\* an error, the context of the tracker is canceled, and the goroutine, when
\* it is scheduled, ends after its count has finished; the step that ends it
\* prints no progress report.
CancellationLiveness ==
    /\ (pc = "done" /\ tracker # "none") ~> (tracker = "returned")
    /\ [][(tracker = "ticking" /\ tracker' = "returned")
              => (pc = "done" /\ printed' = printed)]_vars

\* witness of C33: Dedup has returned, the count had finished, and the
\* goroutine has ended without a progress report
CanceledWithoutReport ==
    /\ pc = "done"
    /\ tracker = "returned"
    /\ goal > 0
    /\ Ticks = 0
    /\ printed = <<Message("Finished counting lines", countLines(inFile))>>

\* Dedup is in splitSortDeduplicate
InSplit == pc \in {"split_start", "split_loop", "split_final"}

\* C34: when the spill stage fails (the input cannot be read, a temporary
\* chunk cannot be created or written) the destination has received no
\* byte, and receives none afterwards: the destination is written only once
\* the whole input was read without error and nothing was spilled, or in
\* the merge.
SpillFailureLeavesDestinationEmpty ==
    /\ [][(InSplit /\ err' # "nil" /\ outFile \notin Range(chunks'))
              => out' = <<>>]_vars
    /\ [][err # "nil" => out' = out]_vars
    /\ [][out' # out
              => \/ /\ pc = "split_final"
                    /\ ~inFileErr
                    /\ scanned > Len(InTokens)
                    /\ tmpFiles = <<>>
                 \/ pc = "merge_loop"]_vars

\* witness of C34: the input failed after a chunk was spilled, Dedup has
\* returned the read error and the destination is empty
SpillFailedDestinationEmpty ==
    /\ pc = "done"
    /\ err = "read error"
    /\ Len(tmpFiles) >= 1
    /\ Len(Records(tmpFiles[1])) >= 1
    /\ out = <<>>

=============================================================================
